---------------------------- MODULE Spec2Model ----------------------------
(***************************************************************************)
(* State-machine model of decompress_lz77 (src/analyze_lz77.py:13-50), the *)
(* GBA LZ77 decoder.  One action per group of source lines; every Python   *)
(* subscript is modelled with Python's semantics (IndexError for an index  *)
(* outside the sequence, negative indices counted from the end, slices     *)
(* truncated at the end of the sequence).                                  *)
(* Sequences are 1-based in TLA+; the code's 0-based index k is element    *)
(* k + 1 of the sequence.                                                  *)
(***************************************************************************)
EXTENDS Integers, Sequences, FiniteSets, TLC

VARIABLES
    data,        \* the source bytes (argument `data`)
    src_offset,  \* argument `src_offset`
    header,      \* local `header` (line 14)
    size,        \* local `size` (line 15)
    out,         \* local `out`, the bytearray (line 16); <<>> before line 16
    s,           \* local `s`, the source position (line 18)
    d,           \* local `d`, the output cursor (line 19)
    flags,       \* local `flags` (line 22)
    i,           \* loop variable of `for i in range(7, -1, -1)` (line 25)
    byte1,       \* local `byte1` (line 31)
    byte2,       \* local `byte2` (line 32)
    length,      \* local `length` (line 35)
    offset,      \* local `offset`, the back-reference distance (lines 36-37)
    j,           \* loop variable of `for j in range(length)` (line 39)
    pc,          \* the line group about to run
    outcome,     \* "running", "returned", or the Python exception raised
    fault,       \* the subscript/call that raised ("none" while none did)
    result,      \* the value handed to the caller by `return out`
    reads,       \* history: the source indices accessed so far, in order
    copyReads,   \* history: [idx, cursor] of every out[] read of a back-copy
    writes,      \* history: the out[] indices written so far
    units,       \* history: "flag", "lit" or "ref" for every flag byte,
                 \* literal and reference pair read, in stream order
    plain,       \* {x} when data holds an encoding of the byte sequence x,
                 \* {} for any other source
    \* several calls of decompress_lz77
    calls,       \* history: the calls that are over, in order, as records
                 \* [data, src_offset, outcome, fault, result, reads]
    other,       \* the frame (arguments and locals) of the invocation that is
                 \* not executing, <<>> when there is none
    cur,         \* the invocation whose frame is in the variables above: 1, 2
    \* src/scripts/test_suite.py: main and _run
    selected,    \* main's `selected`: the test cases, as [id, timeout_s]
    tc,          \* position in `selected` of main's loop variable `tc`
    failed,      \* main's `failed`: <<position of the case, rc>> pairs
    rc,          \* main's `rc`, the value _run returned
    popen,       \* _run's `p`, the child process: [state, stdout, lines, code]
    start,       \* _run's `start`
    now,         \* time.time(), in seconds
    tpc,         \* the line group of main/_run about to run
    exit_status, \* {v} once main has returned v, {} before
    ran,         \* history: positions of the cases _run was called for
    exits,       \* history: the value of rc after every call of _run
    \* src/scripts/rom_sweep.py: main and _run_aioserver
    roms,        \* main's `roms`
    rom,         \* position in `roms` of main's loop variable `rom`
    results,     \* main's `results`: RomResult records
    crash_log,   \* the file root/"crash_log.txt": [exists, size, by]
    exit_code,   \* _run_aioserver's `exit_code`
    spc,         \* the line group of rom_sweep about to run
    sweep_status,\* {v} once rom_sweep's main has returned v, {} before
    wrote        \* history: positions of the ROMs whose AIOServer run wrote a
                 \* non-empty crash_log.txt

\* the variables of one call of decompress_lz77
callVars == <<data, src_offset, header, size, out, s, d, flags, i, byte1,
              byte2, length, offset, j, pc, outcome, fault, result, reads,
              copyReads, writes, units, plain>>

peerVars == <<calls, other, cur>>

suiteVars == <<selected, tc, failed, rc, popen, start, now, tpc, exit_status,
               ran, exits>>

sweepVars == <<roms, rom, results, crash_log, exit_code, spc, sweep_status,
               wrote>>

\* what a step of decompress_lz77 cannot touch
outside == <<peerVars, suiteVars, sweepVars>>

vars == <<callVars, outside>>

locals == <<header, size, out, s, d, flags, i, byte1, byte2, length, offset, j>>

---------------------------------------------------------------------------
(* Bounds of the checked inputs.                                           *)

\* src_offset ranges over 0..MaxOffset
MaxOffset == 1
\* number of source bytes after the 4-byte header ranges over 0..MaxBody
MaxBody == 5
\* the declared size (header bits 8..31) ranges over 0..MaxSize
MaxSize == 5

\* the encoded byte sequences have 0..MaxPlain bytes
MaxPlain == 10

\* byte values of the encoded byte sequences: 0x41, 0x42
PlainVals == {65, 66}

\* byte values of the compressed stream after the header:
\* 0x00, 0x01, 0x40, 0x41, 0x80
ByteVals == {0, 1, 64, 65, 128}

\* the format tag the specification expects in the low header byte (0x10)
ExpectedTag == 16

\* values of the low header byte: the expected tag and another one
TagVals == {ExpectedTag, ExpectedTag + 1}

\* value of the image bytes in front of the block
PadVals == {255}

\* header byte values of the header-parsing specification
HeaderByteVals == {0, 1, 16, 255}

---------------------------------------------------------------------------
(* Python primitives.                                                      *)

\* seq[k] for a 0-based k already known to be in range
At(seq, k) == seq[k + 1]

\* whether Python accepts seq[k]: -len <= k < len
InRange(seq, k) == (k >= 0 - Len(seq)) /\ (k < Len(seq))

\* the 0-based position Python's seq[k] denotes (negative k counts from the end)
PyIndex(seq, k) == IF k < 0 THEN k + Len(seq) ELSE k

\* the indices of seq[a:b] for a, b >= 0: the slice is cut at the end of seq
SliceIndices(seq, a, b) ==
    LET hi == IF b < Len(seq) THEN b ELSE Len(seq)
    IN  IF a < hi THEN [k \in 1..(hi - a) |-> a + k - 1] ELSE <<>>

\* seq[a:b]
Slice(seq, a, b) ==
    LET ix == SliceIndices(seq, a, b)
    IN  [k \in 1..Len(ix) |-> At(seq, ix[k])]

\* the header read big-endian ('>I' for '<I')
UnpackBE(b) == [lo |-> b[4] + 256 * b[3], hi |-> b[2] + 256 * b[1]]

\* struct.unpack('<I', b)[0] for a 4-byte b: little-endian unsigned 32-bit.
\* TLC's integers are 32-bit signed, so the unsigned 32-bit value is
\* kept as its two 16-bit halves: value = lo + 65536 * hi.
UnpackLE(b) == [lo |-> b[1] + 256 * b[2], hi |-> b[3] + 256 * b[4]]

\* x >> n for a machine-size x
ShiftRight(x, n) == x \div (2 ^ n)

\* the flag bits taken low to high
BitSetLowFirst(x, k) == (x \div (2 ^ (7 - k))) % 2 = 1

\* flags & (1 << k) is non-zero
BitSet(x, k) == (x \div (2 ^ k)) % 2 = 1

\* bytearray(n): n zero bytes
ByteArray(n) == [k \in 1..n |-> 0]

\* all sequences over S of length 0..n
SeqsUpTo(S, n) == UNION {[1..m -> S] : m \in 0..n}

---------------------------------------------------------------------------
(* The decoder's expressions.                                              *)

\* line 15: size = header >> 8, on the two halves of header
DeclaredSize(h) == h.hi * 256 + ShiftRight(h.lo, 8)

\* the length taken from the low nibble
RefLengthLowNibble(b1) == (b1 % 16) + 3

\* line 35: length = ((byte1 >> 4) & 0xF) + 3
RefLength(b1) == (ShiftRight(b1, 4) % 16) + 3

\* lines 36-37: offset = ((byte1 & 0xF) << 8) | byte2; offset += 1
RefDistance(b1, b2) == ((b1 % 16) * 256 + b2) + 1

\* the stream taken to start at the header
BodyStartAtHeader(off) == off

\* the stream taken to start at index 4 of the source, whatever the offset
BodyStartAbsolute(off) == 4

\* line 18: s = src_offset + 4
BodyStart(off) == off + 4

\* the cursor left where it is after a write
NextCursorStay(c) == c

\* lines 43 and 48: d += 1
NextCursor(c) == c + 1

\* the reference pair advancing the source position by one byte only
AfterPairOne(p) == p + 1

\* line 33: s += 2
AfterPair(p) == p + 2

\* line 46 with the two buffers exchanged: the byte is stored into the source
StoreLiteralIntoSource ==
    /\ data' = [data EXCEPT ![PyIndex(data, d) + 1] = At(data, PyIndex(data, s))]
    /\ out' = out

\* line 46: out[d] = data[s]; the source is only read
StoreLiteral ==
    /\ out' = [out EXCEPT ![PyIndex(out, d) + 1] = At(data, PyIndex(data, s))]
    /\ data' = data

\* the outer loop running once more when the output is complete
WhileCondInclusive == d <= size

\* the outer loop leaving one byte early
WhileCondOffByOne == d + 1 < size

\* line 21: while d < size
WhileCond == d < size

\* the bit loop without its test of the cursor
BitBreakNever == FALSE

\* line 26: if d >= size: break
BitBreak == d >= size

\* the copy loop without its test of the cursor
CopyBreakNever == FALSE

\* line 40: if d >= size: break
CopyBreak == d >= size

\* line 42, right-hand side: the subscript of out[d - offset]
CopySubscript == d - offset

\* a bulk copy: every byte taken from the buffer as it was when the
\* reference started, where the cells from the cursor d - j on are still 0
CopiedByteBulk ==
    IF CopySubscript >= d - j THEN 0 ELSE At(out, PyIndex(out, CopySubscript))

\* line 42: the byte out[d - offset] evaluates to
CopiedByte == At(out, PyIndex(out, CopySubscript))

---------------------------------------------------------------------------
(* Raising: the exception leaves decompress_lz77; nothing is returned.     *)

\* the exception swallowed and the buffer returned as it is
RaiseThenReturn(exc, site) ==
    /\ outcome' = exc
    /\ fault' = site
    /\ pc' = "return"

Raise(exc, site) ==
    /\ outcome' = exc
    /\ fault' = site
    /\ pc' = "raised"

Continue(next) ==
    /\ pc' = next
    /\ UNCHANGED <<outcome, fault>>

---------------------------------------------------------------------------
(* Initial states: the call decompress_lz77(data, src_offset).             *)

\* a 4-byte header with a small declared size
Headers == {<<t, n, 0, 0>> : t \in TagVals, n \in 0..MaxSize}

\* the specification's worked examples (section 8): the overlapping
\* self-copy (size 5, flag 0x40, 41, 00 00, 42) and the literal-only
\* stream (size 3, flag 0x00, 41 42 43)
RunLengthExample == <<ExpectedTag, 5, 0, 0, 64, 65, 0, 0, 66>>
LiteralExample == <<ExpectedTag, 3, 0, 0, 0, 65, 66, 67>>
WorkedExamples == {RunLengthExample, LiteralExample}

\* what follows the pad bytes: a header and a body, a cut header, or a
\* worked example
Streams ==
    {h \o b : h \in Headers, b \in SeqsUpTo(ByteVals, MaxBody)}
    \cup {SubSeq(h, 1, m) : h \in Headers, m \in 0..3}
    \cup WorkedExamples

InitLocals ==
    /\ header = [lo |-> 0, hi |-> 0] /\ size = 0 /\ out = <<>> /\ s = 0 /\ d = 0
    /\ flags = 0 /\ i = 0 /\ byte1 = 0 /\ byte2 = 0
    /\ length = 0 /\ offset = 0 /\ j = 0
    /\ pc = "header" /\ outcome = "running" /\ fault = "none"
    /\ result = <<>> /\ reads = <<>> /\ copyReads = {} /\ writes = {}
    /\ units = <<>>

\* no process: _run has no child (before line 66)
NoProcess == [state |-> "none", stdout |-> "closed", lines |-> 0, code |-> 0]

\* no file crash_log.txt
NoFile == [exists |-> FALSE, size |-> 0, by |-> 0]

\* a single call of decompress_lz77: no other invocation
NoPeer == calls = <<>> /\ other = <<>> /\ cur = 1

\* the test runner is not running
NoSuite ==
    /\ selected = <<>> /\ tc = 0 /\ failed = <<>> /\ rc = 0
    /\ popen = NoProcess /\ start = 0 /\ now = 0 /\ tpc = "idle"
    /\ exit_status = {} /\ ran = <<>> /\ exits = <<>>

\* the ROM sweep is not running
NoSweep ==
    /\ roms = <<>> /\ rom = 0 /\ results = <<>> /\ crash_log = NoFile
    /\ exit_code = 0 /\ spc = "idle" /\ sweep_status = {} /\ wrote = {}

\* a call on an arbitrary source
InitArbitrary ==
    /\ src_offset \in 0..MaxOffset
    /\ \E pad \in [1..src_offset -> PadVals], st \in Streams : data = pad \o st
    /\ plain = {}
    /\ InitLocals
    /\ NoPeer /\ NoSuite /\ NoSweep

---------------------------------------------------------------------------
(* An encoder of the format (specification, sections 3 and 4.2): the       *)
(* compressed forms of a byte sequence x.  A token is a literal x[p] or a  *)
(* reference (len, dist) with 3 <= len <= 18, 1 <= dist <= min(p, 4096)    *)
(* and x[p+k] = x[p+k-dist] for every k < len; tokens are packed 8 to a    *)
(* flag byte, first token in bit 7.                                        *)

LitToken(v) == [kind |-> "lit", val |-> v, len |-> 0, dist |-> 0]

RefToken(n, e) == [kind |-> "ref", val |-> 0, len |-> n, dist |-> e]

\* the references an encoder may emit at 0-based position p of x
RefsAt(x, p) ==
    {t \in {RefToken(n, e) : n \in {m \in 3..18 : p + m <= Len(x)},
                             e \in {f \in 1..p : f <= 4096}} :
        \A k \in 0..(t.len - 1) : At(x, p + k) = At(x, p + k - t.dist)}

RECURSIVE Tokenizations(_, _)
\* every token sequence that encodes x from 0-based position p on
Tokenizations(x, p) ==
    IF p >= Len(x) THEN {<<>>}
    ELSE {<<LitToken(At(x, p))>> \o r : r \in Tokenizations(x, p + 1)}
         \cup UNION {{<<t>> \o r : r \in Tokenizations(x, p + t.len)} :
                       t \in RefsAt(x, p)}

\* the flag byte of a group of at most 8 tokens
RECURSIVE FlagByte(_, _)
FlagByte(g, m) ==
    IF m > Len(g) THEN 0
    ELSE (IF g[m].kind = "ref" THEN 2 ^ (8 - m) ELSE 0) + FlagByte(g, m + 1)

\* the bytes of one token: a literal, or the pair b1, b2 of a reference
TokenBytes(t) ==
    IF t.kind = "lit" THEN <<t.val>>
    ELSE <<(t.len - 3) * 16 + ((t.dist - 1) \div 256), (t.dist - 1) % 256>>

RECURSIVE GroupBytes(_, _)
GroupBytes(g, m) ==
    IF m > Len(g) THEN <<>> ELSE TokenBytes(g[m]) \o GroupBytes(g, m + 1)

RECURSIVE PackTokens(_, _)
\* flag bytes and token bytes of the tokens ts[k..]
PackTokens(ts, k) ==
    IF k > Len(ts) THEN <<>>
    ELSE LET hi == IF k + 7 < Len(ts) THEN k + 7 ELSE Len(ts)
             g  == SubSeq(ts, k, hi)
         IN  <<FlagByte(g, 1)>> \o GroupBytes(g, 1) \o PackTokens(ts, hi + 1)

\* the 4-byte header of a block of n bytes, n < 2^24
EncodeHeader(n) == <<ExpectedTag, n % 256, (n \div 256) % 256, n \div 65536>>

\* the compressed forms of x
Encodings(x) ==
    {EncodeHeader(Len(x)) \o PackTokens(ts, 1) : ts \in Tokenizations(x, 0)}

\* a longer byte sequence: its compressed forms have references under two
\* flag bytes (ABC ABC DEFG GGG)
LongPlain == <<65, 66, 67, 65, 66, 67, 68, 69, 70, 71, 71, 71, 71>>

\* the encoded byte sequences
Plains == SeqsUpTo(PlainVals, MaxPlain) \cup {LongPlain}

\* a call on a compressed form of a byte sequence
InitEncoded ==
    /\ src_offset \in 0..MaxOffset
    /\ \E pad \in [1..src_offset -> PadVals], x \in Plains :
          /\ plain = {x}
          /\ \E e \in Encodings(x) : data = pad \o e
    /\ InitLocals
    /\ NoPeer /\ NoSuite /\ NoSweep

Init == InitArbitrary \/ InitEncoded

\* the calls of the header-parsing specification: every 4-byte header over
\* HeaderByteVals
InitHeader ==
    /\ src_offset \in 0..MaxOffset
    /\ \E pad \in [1..src_offset -> PadVals], h \in [1..4 -> HeaderByteVals] :
           data = pad \o h
    /\ plain = {}
    /\ InitLocals
    /\ NoPeer /\ NoSuite /\ NoSweep

\* the calls of the reference-decoding specification: a literal, then a
\* reference pair b1, b2 over all byte values (size 19, flag 0x40)
InitRefPair ==
    /\ src_offset \in 0..MaxOffset
    /\ \E pad \in [1..src_offset -> PadVals], b1 \in 0..255, b2 \in 0..255 :
           data = pad \o <<ExpectedTag, 19, 0, 0, 64, 65, b1, b2>>
    /\ plain = {}
    /\ InitLocals
    /\ NoPeer /\ NoSuite /\ NoSweep

---------------------------------------------------------------------------
(* Actions.                                                                *)

\* lines 14-15
ReadHeader ==
    /\ pc = "header"
    /\ LET ix == SliceIndices(data, src_offset, src_offset + 4)
           b  == Slice(data, src_offset, src_offset + 4)
       IN  /\ reads' = reads \o ix
           /\ IF Len(b) # 4
              THEN /\ Raise("struct.error", "unpack")
                   /\ UNCHANGED <<header, size>>
              ELSE /\ header' = UnpackLE(b)
                   /\ size' = DeclaredSize(header')
                   /\ Continue("alloc")
    /\ UNCHANGED <<data, src_offset, out, s, d, flags, i, byte1, byte2,
                   length, offset, j, result, copyReads, writes, units, plain>>
    /\ UNCHANGED outside

\* lines 16-19
Alloc ==
    /\ pc = "alloc"
    /\ out' = ByteArray(size)
    /\ s' = BodyStart(src_offset)
    /\ d' = 0
    /\ Continue("while")
    /\ UNCHANGED <<data, src_offset, header, size, flags, i, byte1, byte2,
                   length, offset, j, result, reads, copyReads, writes, units,
                   plain>>
    /\ UNCHANGED outside

\* line 21
While ==
    /\ pc = "while"
    /\ IF WhileCond THEN Continue("flag") ELSE Continue("return")
    /\ UNCHANGED <<data, src_offset, locals, result, reads, copyReads, writes,
                   units, plain>>
    /\ UNCHANGED outside

\* lines 22-23, and the start of the for loop of line 25
ReadFlag ==
    /\ pc = "flag"
    /\ IF ~InRange(data, s)
       THEN /\ Raise("IndexError", "flag")
            /\ UNCHANGED <<flags, s, i, reads, units>>
       ELSE /\ flags' = At(data, PyIndex(data, s))
            /\ reads' = Append(reads, PyIndex(data, s))
            /\ units' = Append(units, "flag")
            /\ s' = s + 1
            /\ i' = 7
            /\ Continue("for")
    /\ UNCHANGED <<data, src_offset, header, size, out, d, byte1, byte2,
                   length, offset, j, result, copyReads, writes, plain>>
    /\ UNCHANGED outside

\* lines 25-29 and 44: one iteration test of the for loop and the branch
ForBit ==
    /\ pc = "for"
    /\ IF i < 0 THEN Continue("while")
       ELSE IF BitBreak THEN Continue("while")
       ELSE IF BitSet(flags, i) THEN Continue("ref")
       ELSE Continue("lit")
    /\ UNCHANGED <<data, src_offset, locals, result, reads, copyReads, writes,
                   units, plain>>
    /\ UNCHANGED outside

\* lines 31-37, and the start of the for loop of line 39
ReadRef ==
    /\ pc = "ref"
    /\ IF ~InRange(data, s)
       THEN /\ Raise("IndexError", "byte1")
            /\ UNCHANGED <<byte1, byte2, s, length, offset, j, reads, units>>
       ELSE IF ~InRange(data, s + 1)
       THEN /\ byte1' = At(data, PyIndex(data, s))
            /\ reads' = Append(reads, PyIndex(data, s))
            /\ Raise("IndexError", "byte2")
            /\ UNCHANGED <<byte2, s, length, offset, j, units>>
       ELSE /\ byte1' = At(data, PyIndex(data, s))
            /\ byte2' = At(data, PyIndex(data, s + 1))
            /\ reads' = reads \o <<PyIndex(data, s), PyIndex(data, s + 1)>>
            /\ units' = Append(units, "ref")
            /\ s' = AfterPair(s)
            /\ length' = RefLength(byte1')
            /\ offset' = RefDistance(byte1', byte2')
            /\ j' = 0
            /\ Continue("copy")
    /\ UNCHANGED <<data, src_offset, header, size, out, d, flags, i,
                   result, copyReads, writes, plain>>
    /\ UNCHANGED outside

\* lines 39-43: one iteration of the copy loop, or its end
CopyStep ==
    /\ pc = "copy"
    /\ IF j >= length \/ CopyBreak
       THEN /\ i' = i - 1
            /\ Continue("for")
            /\ UNCHANGED <<out, d, j, copyReads, writes>>
       ELSE IF ~InRange(out, CopySubscript)
       THEN /\ Raise("IndexError", "copy-read")
            /\ UNCHANGED <<out, d, j, i, copyReads, writes>>
       ELSE IF ~InRange(out, d)
       THEN /\ copyReads' = copyReads \cup
                   {[idx |-> PyIndex(out, CopySubscript), cursor |-> d]}
            /\ Raise("IndexError", "copy-write")
            /\ UNCHANGED <<out, d, j, i, writes>>
       ELSE /\ copyReads' = copyReads \cup
                   {[idx |-> PyIndex(out, CopySubscript), cursor |-> d]}
            /\ out' = [out EXCEPT ![PyIndex(out, d) + 1] = CopiedByte]
            /\ writes' = writes \cup {PyIndex(out, d)}
            /\ d' = NextCursor(d)
            /\ j' = j + 1
            /\ Continue("copy")
            /\ UNCHANGED i
    /\ UNCHANGED <<data, src_offset, header, size, s, flags, byte1, byte2,
                   length, offset, result, reads, units, plain>>
    /\ UNCHANGED outside

\* lines 46-48
Literal ==
    /\ pc = "lit"
    /\ IF ~InRange(data, s)
       THEN /\ Raise("IndexError", "literal")
            /\ UNCHANGED <<data, out, s, d, i, reads, writes, units>>
       ELSE IF ~InRange(out, d)
       THEN /\ reads' = Append(reads, PyIndex(data, s))
            /\ Raise("IndexError", "literal-write")
            /\ UNCHANGED <<data, out, s, d, i, writes, units>>
       ELSE /\ reads' = Append(reads, PyIndex(data, s))
            /\ units' = Append(units, "lit")
            /\ StoreLiteral
            /\ writes' = writes \cup {PyIndex(out, d)}
            /\ s' = s + 1
            /\ d' = NextCursor(d)
            /\ i' = i - 1
            /\ Continue("for")
    /\ UNCHANGED <<src_offset, header, size, flags, byte1, byte2,
                   length, offset, j, result, copyReads, plain>>
    /\ UNCHANGED outside

\* line 50
Return ==
    /\ pc = "return"
    /\ result' = out
    /\ outcome' = "returned"
    /\ pc' = "done"
    /\ UNCHANGED <<data, src_offset, locals, fault, reads, copyReads, writes,
                   units, plain>>
    /\ UNCHANGED outside

Next ==
    \/ ReadHeader
    \/ Alloc
    \/ While
    \/ ReadFlag
    \/ ForBit
    \/ ReadRef
    \/ CopyStep
    \/ Literal
    \/ Return

Spec == Init /\ [][Next]_vars

\* header parsing alone (lines 14-15), over wide header bytes
NextHeader == ReadHeader

HeaderSpec == InitHeader /\ [][NextHeader]_vars

\* the whole decode, over every reference byte pair
RefSpec == InitRefPair /\ [][Next]_vars

---------------------------------------------------------------------------
(* Vocabulary of the properties.                                           *)

\* the elements of a sequence
Range(seq) == {seq[k] : k \in 1..Len(seq)}

\* the 4 header bytes lie inside the source
HeaderPresent == src_offset + 4 <= Len(data)

\* the byte at src_offset, the format tag
HeaderTag == At(data, src_offset)

\* a reference has been read and its copy loop is running or just over
InReference == pc = "copy"

\* the cursor at which the current reference was met
RefCursor == d - j

\* the copy loop of the current reference is over
RefOver == InReference /\ (j >= length \/ d >= size)

\* the smaller of two numbers
Min(a, b) == IF a < b THEN a ELSE b

\* a source read of the stream (flag, literal or reference byte) raised
SourceExhausted == fault \in {"flag", "literal", "byte1", "byte2"}

---------------------------------------------------------------------------
(* Properties.                                                             *)

\* C1: in every state of a decode 0 <= cursor <= size, every write to the
\* output buffer was at an index in 0..size-1, and no write was attempted
\* outside the buffer.
C1_CursorWithinSize ==
    /\ 0 <= d /\ d <= size
    /\ \A w \in writes : 0 <= w /\ w < size
    /\ fault \notin {"copy-write", "literal-write"}

\* C1 witness: a back-copy of written bytes stopped by the cursor reaching
\* size before all `length` bytes were copied.
C1_Witness ==
    InReference /\ offset <= RefCursor /\ j > 0 /\ j < length /\ d = size

\* C2: a reference whose distance is greater than the cursor at which it is
\* met copies nothing and makes the decode fail with
\* ReferenceOutOfRangeError.
C2_RefBeyondCursorFails ==
    /\ (InReference /\ offset > RefCursor) => j = 0
    /\ (fault \in {"copy-read", "copy-write"} /\ offset > RefCursor)
           => outcome = "ReferenceOutOfRangeError"

\* C3: every byte a back-copy reads from the output buffer is read at an
\* index i with 0 <= i < cursor.
C3_CopyReadsOnlyWritten ==
    \A r \in copyReads : 0 <= r.idx /\ r.idx < r.cursor

\* C4: every source index accessed lies in [0, len(source)), and when fewer
\* than 2 bytes follow a flag bit that selects a reference neither
\* reference byte is read.
C4_NoPartialReferenceRead ==
    /\ \A k \in Range(reads) : 0 <= k /\ k < Len(data)
    /\ fault \in {"byte1", "byte2"} => (s \notin Range(reads))

\* C5: when the source is exhausted at the read of a flag byte, a literal
\* byte or a reference byte (cursor < size), the decode ends in
\* TruncatedStreamError.
C5_ExhaustedSourceIsTruncatedStream ==
    SourceExhausted => (d < size /\ outcome = "TruncatedStreamError")

\* C6 as stated: after a reference (length, distance) met at cursor c with
\* distance <= c, all `length` bytes are there: out[c+k] = out[c+k-distance]
\* for every k in 0..length-1, the copied region being the periodic
\* repetition of the last `distance` bytes.
C6_AllLengthBytesCopied ==
    (RefOver /\ offset <= RefCursor) =>
        \A k \in 0..(length - 1) :
            /\ RefCursor + k < Len(out)
            /\ At(out, RefCursor + k) = At(out, RefCursor + k - offset)
            /\ At(out, RefCursor + k) = At(out, RefCursor - offset + (k % offset))

\* C6 amended: during and after a reference met at cursor c with
\* distance <= c, the j bytes copied so far satisfy
\* out[c+k] = out[c+k-distance] and are the periodic repetition of the last
\* `distance` bytes; when the copy is over j = min(length, size - c).  The
\* run-length example (size 5, flag 0x40, 41, 00 00, 42) returns
\* [41,41,41,41,42].
C6_OverlappingCopy ==
    /\ (InReference /\ offset <= RefCursor) =>
          /\ \A k \in 0..(j - 1) :
                /\ At(out, RefCursor + k) = At(out, RefCursor + k - offset)
                /\ At(out, RefCursor + k) =
                       At(out, RefCursor - offset + (k % offset))
          /\ RefOver => j = Min(length, size - RefCursor)
    /\ (outcome = "returned" /\ SubSeq(data, src_offset + 1, Len(data)) = RunLengthExample)
          => result = <<65, 65, 65, 65, 66>>

\* C6 witness: the run-length example has returned (distance 1 < length 3).
C6_Witness ==
    /\ outcome = "returned"
    /\ SubSeq(data, src_offset + 1, Len(data)) = RunLengthExample
    /\ result = <<65, 65, 65, 65, 66>>

\* C7: once allocated the buffer has the declared length in every state,
\* and a successful decode returns that buffer with cursor = size =
\* the size in header bytes 1..3.
C7_ReturnsDeclaredSize ==
    /\ (pc \notin {"header", "alloc", "raised"} \/ (pc = "raised" /\ fault # "unpack"))
          => /\ Len(out) = size
             /\ size = At(data, src_offset + 1) + 256 * At(data, src_offset + 2)
                           + 65536 * At(data, src_offset + 3)
    /\ outcome = "returned" => (result = out /\ Len(result) = size /\ d = size)

\* C7 witness: a decode that wrote literals and copied bytes has returned.
C7_Witness == outcome = "returned" /\ Len(result) > 1 /\ copyReads # {}

\* C8: the header is the little-endian value of source[offset..offset+3];
\* the tag is its low 8 bits (the byte at offset) and the declared size its
\* upper 24 bits (bytes offset+1..offset+3, little-endian), in 0..2^24-1.
C8_HeaderLittleEndian ==
    pc = "alloc" =>
        /\ header.lo = At(data, src_offset) + 256 * At(data, src_offset + 1)
        /\ header.hi = At(data, src_offset + 2) + 256 * At(data, src_offset + 3)
        /\ header.lo % 256 = HeaderTag
        /\ size = At(data, src_offset + 1) + 256 * At(data, src_offset + 2)
                      + 65536 * At(data, src_offset + 3)
        /\ 0 <= size /\ size <= 2 ^ 24 - 1

\* C8 witness: a header at offset 1 whose three size bytes are all 0xFF.
C8_Witness ==
    pc = "alloc" /\ src_offset = 1 /\ size = 2 ^ 24 - 1 /\ HeaderTag = ExpectedTag

\* C9: a header whose tag differs from the expected tag makes the decode
\* fail with FormatError before any flag byte is read or output produced.
C9_TagMismatchIsFormatError ==
    (HeaderPresent /\ HeaderTag # ExpectedTag /\ pc # "header") =>
        /\ outcome = "FormatError"
        /\ Len(reads) <= 4
        /\ writes = {}

\* C10: with fewer than 4 source bytes at the offset the decode fails with
\* FormatError, reads no byte outside the source and allocates and returns
\* nothing.
C10_ShortHeaderIsFormatError ==
    (~HeaderPresent /\ pc # "header") =>
        /\ outcome = "FormatError"
        /\ \A k \in Range(reads) : 0 <= k /\ k < Len(data)
        /\ out = <<>> /\ result = <<>>

---------------------------------------------------------------------------
(* Vocabulary of the properties of the decode loop.                        *)

\* the header has been parsed and the buffer allocated
Allocated == pc \notin {"header", "alloc"} /\ fault # "unpack"

\* the decode loop is running (neither before it nor over)
Decoding == pc \in {"while", "flag", "for", "ref", "lit", "copy", "return"}

\* how many units of a kind have been read
Count(kind) == Cardinality({k \in 1..Len(units) : units[k] = kind})

\* the position in units of the last flag byte read (0 when none was)
LastFlag ==
    LET fs == {k \in 1..Len(units) : units[k] = "flag"}
    IN  IF fs = {} THEN 0 ELSE CHOOSE k \in fs : \A m \in fs : m <= k

\* the number of literals and references read since the last flag byte
UnitsSinceFlag == Len(units) - LastFlag

\* the source bytes consumed beyond the 4-byte header
Consumed == s - (src_offset + 4)

\* the last unit read
LastUnit(u) == u[Len(u)]

\* the four error kinds of the specification (section 7)
ErrorKinds == {"FormatError", "SizeLimitExceededError", "TruncatedStreamError",
               "ReferenceOutOfRangeError"}

---------------------------------------------------------------------------
(* Properties of the decode loop.                                          *)

\* C11: for every caller maximum M, a header whose declared size exceeds M
\* makes the decode fail with SizeLimitExceededError, and no buffer longer
\* than M is ever allocated.
C11_SizeLimitEnforced ==
    \A M \in 0..MaxSize :
        (HeaderPresent /\ pc # "header" /\ size > M) =>
            /\ outcome = "SizeLimitExceededError"
            /\ Len(out) <= M

\* C12: a header with declared size 0 decodes to an empty output without
\* failing, and no source byte other than the 4 header bytes is read.
C12_SizeZeroReadsOnlyHeader ==
    (HeaderPresent /\ pc # "header" /\ size = 0) =>
        /\ reads = SliceIndices(data, src_offset, src_offset + 4)
        /\ units = <<>>
        /\ outcome \in {"running", "returned"}
        /\ pc \in {"alloc", "while", "return", "done"}
        /\ pc = "done" => (outcome = "returned" /\ result = <<>>)
        /\ Allocated => Consumed = 0

\* C12 witness: a source that ends right after a size-0 header has returned
\* the empty output.
C12_Witness ==
    /\ pc = "done" /\ size = 0 /\ result = <<>>
    /\ Len(data) = src_offset + 4

\* C13: a decode returns only with cursor = size, and once the cursor equals
\* the size no further bit of the flag byte is processed, no source byte is
\* read and no error is raised.
C13_StopsAtSize ==
    /\ [](outcome = "returned" => d = size)
    /\ [][(Decoding /\ d = size) =>
             /\ reads' = reads /\ s' = s /\ units' = units
             /\ pc' \in {"while", "for", "return", "done"}
             /\ outcome' \in {"running", "returned"}]_vars

\* C13 witness: a decode has returned with bit positions of its last flag
\* byte unused and source bytes after the last unit unread.
C13_Witness ==
    /\ pc = "done" /\ outcome = "returned" /\ size > 0
    /\ i > 0 /\ s < Len(data)

\* C14: the k-th unit after a flag byte (k = 0..7) is selected by bit 7-k of
\* that byte: a reference (2 source bytes) when set, a literal (1 source
\* byte) when clear; a flag byte is the source byte at the read position
\* and a new one is read only after 8 units.
C14_FlagBitsHighToLow ==
    /\ [](pc \in {"ref", "lit"} =>
             /\ UnitsSinceFlag \in 0..7
             /\ i = 7 - UnitsSinceFlag
             /\ (pc = "ref") <=> ((flags \div (2 ^ (7 - UnitsSinceFlag))) % 2 = 1))
    /\ [](pc = "flag" => (units = <<>> \/ UnitsSinceFlag = 8))
    /\ [][/\ units' # units =>
               /\ Len(units') = Len(units) + 1
               /\ LastUnit(units') = "flag" => (s' = s + 1 /\ flags' = At(data, s))
               /\ LastUnit(units') = "lit" => (s' = s + 1 /\ flags' = flags)
               /\ LastUnit(units') = "ref" => (s' = s + 2 /\ flags' = flags)
          /\ (units' = units /\ pc # "alloc") => (s' = s /\ flags' = flags)]_vars

\* C14 witness: the first unit of a second flag byte is a reference, after
\* a first flag byte with 8 units of which the fourth was a reference.
C14_Witness ==
    /\ pc = "ref" /\ i = 7 /\ Len(units) = 10
    /\ units[5] = "ref"

\* C15: after a reference pair b1, b2 is read, length = (b1 >> 4) + 3 lies in
\* 3..18 and distance = ((b1 & 0xF) << 8 | b2) + 1 lies in 1..4096, b1 and b2
\* being the two source bytes just consumed; the copy runs at most length
\* times and reads at cursor - distance.
C15_LengthAndDistance ==
    (pc = "copy") =>
        /\ byte1 = At(data, s - 2) /\ byte2 = At(data, s - 1)
        /\ length = (byte1 \div 16) + 3
        /\ length \in 3..18
        /\ offset = (byte1 % 16) * 256 + byte2 + 1
        /\ offset \in 1..4096
        /\ j <= length
        /\ \A r \in copyReads :
              r.idx = (IF r.cursor - offset < 0 THEN r.cursor - offset + size
                       ELSE r.cursor - offset)

\* C15 witness: the pair FF FF gives length 18 and distance 4096.
C15_Witness == pc = "copy" /\ length = 18 /\ offset = 4096

\* C16: the source bytes consumed beyond the header number
\* flags + literals + 2 * references; a decode that returns after literals
\* only has output = the literal bytes in stream order and consumed
\* ceil(n/8) + n bytes; the literal-only example returns [41,42,43] after
\* 4 bytes.
C16_BytesConsumed ==
    /\ Allocated =>
          Consumed = Count("flag") + Count("lit") + 2 * Count("ref")
    /\ outcome = "returned" => Len(reads) = 4 + Consumed
    /\ (outcome = "returned" /\ Count("ref") = 0 /\ size >= 1) =>
          /\ Consumed = ((size + 7) \div 8) + size
          /\ \A k \in 0..(size - 1) :
                At(result, k) = At(data, src_offset + 4 + 1 + k + (k \div 8))
    /\ (outcome = "returned"
          /\ SubSeq(data, src_offset + 1, Len(data)) = LiteralExample) =>
          (result = <<65, 66, 67>> /\ Consumed = 4)

\* C16 witness: a literal-only decode of more than 8 bytes has returned.
C16_Witness ==
    outcome = "returned" /\ Count("ref") = 0 /\ size > 8 /\ Count("flag") = 2

\* C17: no step changes the source, and a step changes the output buffer
\* only in the cell at the cursor, which lies in 0..size-1.
C17_SourceNeverMutated ==
    [][/\ data' = data
       /\ Allocated =>
             /\ Len(out') = Len(out)
             /\ \A k \in 1..Len(out) :
                   out'[k] # out[k] => (k - 1 = d /\ 0 <= d /\ d < size)]_vars

\* C17 witness: a decode that wrote literals and copied bytes is over.
C17_Witness == pc = "done" /\ Count("lit") > 0 /\ copyReads # {}

\* C18: once an error is raised the decode is over: nothing is returned,
\* although output bytes may have been written, and no step follows.
C18_FailureReturnsNothing ==
    fault # "none" =>
        /\ pc = "raised"
        /\ outcome \notin {"running", "returned"}
        /\ result = <<>>
        /\ ~ENABLED Next

\* C18 witness: an error raised after output bytes were written.
C18_Witness == pc = "raised" /\ writes # {} /\ result = <<>>

\* C19: every failure of a decode is one of the four tagged error kinds.
C19_FailuresAreTagged == pc = "raised" => outcome \in ErrorKinds

\* C20: decoding a compressed form of x never fails, the bytes written so
\* far are a prefix of x, and the decode returns exactly x.
C20_RoundTrip ==
    \A x \in plain :
        /\ outcome \in {"running", "returned"}
        /\ Allocated => (size = Len(x) /\ SubSeq(out, 1, d) = SubSeq(x, 1, d))
        /\ outcome = "returned" => result = x

\* C20 witness: a compressed form with an overlapping reference (distance
\* smaller than length) has been decoded to its 10 or more original bytes.
C20_Witness ==
    /\ outcome = "returned" /\ plain = {result} /\ Len(result) >= 10
    /\ Count("ref") > 0 /\ offset < length

---------------------------------------------------------------------------
(* Termination, and the order of reads and writes.                         *)

\* the calls of the termination specification: at offset 0, every stream
\* of at most MaxBody bytes behind a header with the expected tag, the worked
\* examples, and the compressed forms of LongPlain (two flag bytes)
InitLive ==
    /\ src_offset = 0
    /\ data \in {<<ExpectedTag, n, 0, 0>> \o b :
                    n \in 0..MaxSize, b \in SeqsUpTo(ByteVals, MaxBody)}
                \cup WorkedExamples \cup Encodings(LongPlain)
    /\ plain = {}
    /\ InitLocals
    /\ NoPeer /\ NoSuite /\ NoSweep

\* the decode run to its end by the interpreter: a step that can be taken is
\* taken (nothing in lines 13-50 blocks or waits)
LiveSpec == InitLive /\ [][Next]_vars /\ WF_vars(Next)

\* the decode is over
Terminal == pc \in {"done", "raised"}

\* the last unit read is a reference: its copy is running, or is over and
\* no other unit has been read since, or has raised
AtReference == units # <<>> /\ LastUnit(units) = "ref"

\* the reference asks for more bytes than the buffer has left
LongReference == AtReference /\ length > size - RefCursor

\* C21: every decode ends, returning or raising; a copy loop runs at most
\* length <= 18 times; and at the head of the outer loop every flag byte
\* read so far has been followed by at least one unit and every unit has
\* advanced the cursor by at least 1.
C21_DecodeTerminates ==
    /\ <>Terminal
    /\ [](pc = "copy" => (j <= length /\ length <= 18))
    /\ []((pc = "while" /\ Allocated) =>
             /\ Count("lit") + Count("ref") >= Count("flag")
             /\ d >= Count("lit") + Count("ref"))

\* C21 witness: a corrupt stream has ended in an error after a literal was
\* written, its reference reaching back beyond the buffer.
C21_Witness == pc = "raised" /\ fault = "copy-read" /\ d > 0 /\ d < size

\* C23: a flag byte is read only with cursor < size; once the output is
\* completed by the 8th unit of a flag byte no flag byte is read and no
\* error raised, whether or not the source holds another byte; a decode
\* stops only in the returned state, entered with cursor = size, or in a
\* raised error.
C23_FlagReadOnlyBelowSize ==
    /\ [](pc = "flag" => d < size)
    /\ [][(units' # units /\ LastUnit(units') = "flag") => d < size]_vars
    /\ []((Allocated /\ d = size /\ UnitsSinceFlag = 8) =>
             /\ pc \in {"copy", "for", "while", "return", "done"}
             /\ fault = "none")
    /\ [][(Allocated /\ d = size /\ UnitsSinceFlag = 8) =>
             Count("flag")' = Count("flag")]_vars
    /\ [](~ENABLED Next => Terminal)
    /\ [](pc = "done" => (outcome = "returned" /\ d = size))
    /\ [](pc = "raised" => outcome \notin {"running", "returned"})

\* C23 witness: a decode has returned after one flag byte with 8 units, the
\* source ending with the 8th unit.
C23_Witness ==
    /\ pc = "done" /\ Count("flag") = 1 /\ UnitsSinceFlag = 8
    /\ d = size /\ s = Len(data)

\* C24 as stated: every reference longer than the remaining capacity
\* size - cursor is clipped: no error is raised, at most size - cursor bytes
\* are copied, the copy ends with cursor = size having copied exactly
\* size - cursor bytes, and the source position is behind both reference
\* bytes.
C24_LongReferenceClipped ==
    LongReference =>
        /\ fault = "none"
        /\ pc \in {"copy", "for", "while", "return", "done"}
        /\ j <= size - RefCursor
        /\ (pc # "copy" \/ RefOver) => (j = size - RefCursor /\ d = size)
        /\ Len(reads) >= 2
        /\ reads[Len(reads) - 1] = s - 2 /\ reads[Len(reads)] = s - 1

\* C24 amended: the same for every reference longer than the remaining
\* capacity whose distance is at most the cursor at which it is met.
C24_ValidLongReferenceClipped ==
    (LongReference /\ offset <= RefCursor) =>
        /\ fault = "none"
        /\ pc \in {"copy", "for", "while", "return", "done"}
        /\ j <= size - RefCursor
        /\ (pc # "copy" \/ RefOver) => (j = size - RefCursor /\ d = size)
        /\ Len(reads) >= 2
        /\ reads[Len(reads) - 1] = s - 2 /\ reads[Len(reads)] = s - 1

\* C24 witness: a decode has returned whose last unit was a reference of
\* length 3 or more with 1 or 2 bytes of capacity left.
C24_Witness ==
    /\ pc = "done" /\ outcome = "returned" /\ LongReference
    /\ offset <= RefCursor /\ j > 0 /\ j = size - RefCursor

\* C25: the cells at indices >= cursor hold 0 and exactly the cells below
\* the cursor have been written; a step writes only the cell at the cursor
\* and then moves the cursor up by 1, the cursor never moves down and the
\* cells below it never change.
C25_ForwardWriteOnce ==
    /\ [](Allocated =>
             /\ \A k \in 0..(Len(out) - 1) : k >= d => At(out, k) = 0
             /\ writes = 0..(d - 1))
    /\ [][Allocated =>
             /\ d' >= d
             /\ \A k \in 0..(Len(out) - 1) :
                   At(out', k) # At(out, k) => (k = d /\ d' = d + 1)
             /\ \A k \in 0..(d - 1) : At(out', k) = At(out, k)
             /\ writes' # writes => (writes' = writes \cup {d} /\ d' = d + 1)
             /\ d' # d => (d' = d + 1 /\ writes' = writes \cup {d})]_vars

\* C25 witness: in the middle of a decode the cell below the cursor holds a
\* non-zero byte.
C25_Witness ==
    /\ pc \in {"lit", "copy"} /\ 0 < d /\ d < size
    /\ At(out, d - 1) # 0

\* C26: the k-th source byte read is the one at offset + k - 1 (in order,
\* each once, none before the offset); the source position starts at
\* offset + 4, never decreases, stays where it is unless a unit is read and
\* moves by 1 for a flag byte or literal and by 2 for a reference; the bytes
\* read are exactly those below the source position (and the first byte of
\* a reference whose second byte is missing).
C26_SequentialSourceReads ==
    /\ [](\A k \in 1..Len(reads) : reads[k] = src_offset + k - 1)
    /\ []((pc = "while" /\ units = <<>>) => s = src_offset + 4)
    /\ [](Allocated =>
             /\ s >= src_offset + 4
             /\ Len(reads) = (s - src_offset)
                   + (IF fault \in {"byte2", "literal-write"} THEN 1 ELSE 0))
    /\ [][Allocated =>
             /\ s' >= s
             /\ units' = units => s' = s
             /\ units' # units =>
                   s' - s = (IF LastUnit(units') = "ref" THEN 2 ELSE 1)]_vars

\* C26 witness: a decode at offset 1 that read literals and references has
\* returned having read the source to its end.
C26_Witness ==
    /\ pc = "done" /\ src_offset = 1 /\ Count("ref") > 0 /\ Count("lit") > 0
    /\ s = Len(data)

---------------------------------------------------------------------------
(* Several calls of decompress_lz77.  A call's arguments and locals are    *)
(* its frame; the variables of the module hold the frame of the invocation *)
(* that is executing, `other` the frame of one that is not.  The function  *)
(* uses no global and no attribute: apart from the object `data` refers    *)
(* to, a frame is all a call can reach.                                    *)

\* the blocks of the two-thread specification have 0..MaxPairBody bytes
\* after the header and declare 0..MaxPairSize bytes
MaxPairBody == 3
MaxPairSize == 2

\* byte values of those blocks: 0x00, 0x80
PairVals == {0, 128}

\* the sources of the two-call specification have 0..MaxAgainBody bytes
\* after the header and declare 0..MaxAgainSize bytes
MaxAgainBody == 4
MaxAgainSize == 3

\* byte values of those sources: 0x00, 0x41, 0x80
AgainVals == {0, 65, 128}

\* the second source has 0..MaxTail bytes over TailVals after the bytes the
\* first call consumed, and bytes over AgainPadVals before its offset
MaxTail == 2
TailVals == {0, 65}
AgainPadVals == {0, 255}

\* the frame of the executing invocation
Frame ==
    [src_offset |-> src_offset, header |-> header, size |-> size, out |-> out,
     s |-> s, d |-> d, flags |-> flags, i |-> i, byte1 |-> byte1,
     byte2 |-> byte2, length |-> length, offset |-> offset, j |-> j,
     pc |-> pc, outcome |-> outcome, fault |-> fault, result |-> result,
     reads |-> reads, copyReads |-> copyReads, writes |-> writes,
     units |-> units]

\* the frame of a call decompress_lz77(data, off) that has not taken a step
FreshFrame(off) ==
    [src_offset |-> off, header |-> [lo |-> 0, hi |-> 0], size |-> 0,
     out |-> <<>>, s |-> 0, d |-> 0, flags |-> 0, i |-> 0, byte1 |-> 0,
     byte2 |-> 0, length |-> 0, offset |-> 0, j |-> 0,
     pc |-> "header", outcome |-> "running", fault |-> "none",
     result |-> <<>>, reads |-> <<>>, copyReads |-> {}, writes |-> {},
     units |-> <<>>]

\* frame f becomes the executing one
Load(f) ==
    /\ src_offset' = f.src_offset /\ header' = f.header /\ size' = f.size
    /\ out' = f.out /\ s' = f.s /\ d' = f.d /\ flags' = f.flags /\ i' = f.i
    /\ byte1' = f.byte1 /\ byte2' = f.byte2 /\ length' = f.length
    /\ offset' = f.offset /\ j' = f.j /\ pc' = f.pc /\ outcome' = f.outcome
    /\ fault' = f.fault /\ result' = f.result /\ reads' = f.reads
    /\ copyReads' = f.copyReads /\ writes' = f.writes /\ units' = f.units

\* the record of the call that is over
Finished ==
    [data |-> data, src_offset |-> src_offset, outcome |-> outcome,
     fault |-> fault, result |-> result, reads |-> reads]

\* the blocks of the two-thread specification
PairBlocks ==
    {<<ExpectedTag, n, 0, 0>> \o b :
        n \in 0..MaxPairSize, b \in SeqsUpTo(PairVals, MaxPairBody)}

\* an image of two blocks; invocation 1 decodes the block at 0,
\* invocation 2 the same block or the next one
InitPair ==
    /\ \E b1 \in PairBlocks \cup WorkedExamples,
          b2 \in PairBlocks \cup WorkedExamples :
             /\ data = b1 \o b2
             /\ \E off2 \in {0, Len(b1)} : other = FreshFrame(off2)
    /\ src_offset = 0
    /\ plain = {}
    /\ InitLocals
    /\ calls = <<>> /\ cur = 1
    /\ NoSuite /\ NoSweep

\* the caller of the two-thread specification: invocation 1 alone, then
\* invocation 2 alone, then both started on two threads
CallNext ==
    /\ Terminal /\ other # <<>> /\ Len(calls) < 2
    /\ calls' = Append(calls, Finished)
    /\ IF Len(calls) = 0
       THEN /\ other' = FreshFrame(src_offset)
            /\ Load(other)
            /\ cur' = 2
       ELSE /\ Load(FreshFrame(src_offset))
            /\ UNCHANGED <<other, cur>>
    /\ UNCHANGED <<data, plain, suiteVars, sweepVars>>

\* the interpreter hands the processor to the other thread
Switch ==
    /\ Len(calls) = 2 /\ other # <<>>
    /\ other.pc \notin {"done", "raised"}
    /\ other' = Frame
    /\ Load(other)
    /\ cur' = 3 - cur
    /\ UNCHANGED <<data, plain, calls, suiteVars, sweepVars>>

PairNext ==
    \/ ReadHeader
    \/ Alloc
    \/ While
    \/ ReadFlag
    \/ ForBit
    \/ ReadRef
    \/ CopyStep
    \/ Literal
    \/ Return
    \/ CallNext
    \/ Switch

PairSpec == InitPair /\ [][PairNext]_vars

\* both invocations run on two threads
Concurrent == Len(calls) = 2 /\ other # <<>>

\* C22: when two invocations run on two threads over one image, under every
\* interleaving each ends as it ended alone, same outcome, same site of the
\* error and same bytes returned, and the image is what it was.
C22_InterleavingIndependent ==
    Concurrent =>
        /\ data = calls[1].data
        /\ Terminal =>
              /\ outcome = calls[cur].outcome
              /\ fault = calls[cur].fault
              /\ result = calls[cur].result
        /\ other.pc \in {"done", "raised"} =>
              /\ other.outcome = calls[3 - cur].outcome
              /\ other.fault = calls[3 - cur].fault
              /\ other.result = calls[3 - cur].result

\* C22 witness: of two invocations on two threads decoding different
\* blocks one has returned bytes and the other has raised.
C22_Witness ==
    /\ Concurrent /\ Terminal /\ outcome = "returned" /\ result # <<>>
    /\ other.pc = "raised" /\ other.src_offset # src_offset

\* the sources of the two-call specification
AgainStreams ==
    {<<ExpectedTag, n, 0, 0>> \o b :
        n \in 0..MaxAgainSize, b \in SeqsUpTo(AgainVals, MaxAgainBody)}

InitAgain ==
    /\ src_offset \in 0..MaxOffset
    /\ \E pad \in [1..src_offset -> PadVals], st \in AgainStreams :
          data = pad \o st
    /\ plain = {}
    /\ InitLocals
    /\ NoPeer /\ NoSuite /\ NoSweep

\* the source bytes the call has read, in the order read
ConsumedBytes == [k \in 1..Len(reads) |-> At(data, reads[k])]

\* a second call, after the first is over, on a source that has the bytes
\* the first call read at its own offset, anything before and anything after
CallAgain ==
    /\ Terminal /\ calls = <<>>
    /\ calls' = <<Finished>>
    /\ \E off2 \in 0..MaxOffset :
          \E pad \in [1..off2 -> AgainPadVals],
             tail \in SeqsUpTo(TailVals, MaxTail) :
                /\ data' = pad \o ConsumedBytes \o tail
                /\ Load(FreshFrame(off2))
    /\ cur' = 2
    /\ UNCHANGED <<other, plain, suiteVars, sweepVars>>

AgainNext ==
    \/ ReadHeader
    \/ Alloc
    \/ While
    \/ ReadFlag
    \/ ForBit
    \/ ReadRef
    \/ CopyStep
    \/ Literal
    \/ Return
    \/ CallAgain

AgainSpec == InitAgain /\ [][AgainNext]_vars

\* the second call is over
SecondOver == Len(calls) = 1 /\ cur = 2 /\ Terminal

\* the number of source bytes from the offset on
Extent(dat, off) == Len(dat) - off

\* C27 as stated: a second call whose source agrees with the first's on the
\* header and on every byte the first call consumed ends as the first did
\* and returns the same bytes, whatever lies before its offset and after
\* the last consumed byte.
C27_SameOnConsumedBytes ==
    SecondOver =>
        /\ outcome = calls[1].outcome
        /\ result = calls[1].result

\* C27 amended: it does when the first call did not run off the end of its
\* source, or the second source ends where the first did.
C27_SameUnlessSourceEnded ==
    (SecondOver /\ (calls[1].fault \notin {"flag", "literal", "byte1", "byte2"}
                    \/ Extent(data, src_offset) =
                         Extent(calls[1].data, calls[1].src_offset))) =>
        /\ outcome = calls[1].outcome
        /\ fault = calls[1].fault
        /\ result = calls[1].result
        /\ ConsumedBytes =
              [k \in 1..Len(calls[1].reads) |->
                   At(calls[1].data, calls[1].reads[k])]

\* C27 witness: the second call, at another offset and with unread bytes
\* after those the first consumed, has returned the bytes the first did.
C27_Witness ==
    /\ SecondOver /\ outcome = "returned" /\ result # <<>>
    /\ result = calls[1].result /\ copyReads # {}
    /\ src_offset # calls[1].src_offset
    /\ Extent(data, src_offset) > Len(reads)

---------------------------------------------------------------------------
(* The test runner, src/scripts/test_suite.py: main from line 318 on and   *)
(* _run.  The child process and the clock are the environment: the child   *)
(* may write a line, close its stdout, exit, or do none of these.          *)

\* `selected` has 0..MaxCases test cases
MaxCases == 2
\* timeout_s of a test case ranges over 1..MaxTimeout seconds
MaxTimeout == 2
\* at most MaxLines lines written by the child wait in the pipe
MaxLines == 1

\* line 87: return 124
TimeoutCode == 124

\* exit codes of a child: success and failure
ExitCodes == {0, 1}

\* no call of decompress_lz77
NoCall ==
    /\ data = <<>> /\ src_offset = 0 /\ plain = {}
    /\ header = [lo |-> 0, hi |-> 0] /\ size = 0 /\ out = <<>> /\ s = 0 /\ d = 0
    /\ flags = 0 /\ i = 0 /\ byte1 = 0 /\ byte2 = 0
    /\ length = 0 /\ offset = 0 /\ j = 0
    /\ pc = "idle" /\ outcome = "running" /\ fault = "none"
    /\ result = <<>> /\ reads = <<>> /\ copyReads = {} /\ writes = {}
    /\ units = <<>>

\* the test cases main may have selected: distinct ids, each with a timeout
Selections ==
    UNION {{[k \in 1..n |-> [id |-> k, timeout_s |-> ts[k]]] :
               ts \in [1..n -> 1..MaxTimeout]} : n \in 0..MaxCases}

\* main after line 318: selected = _apply_filters(...)
InitSuite ==
    /\ selected \in Selections
    /\ tc = 0 /\ failed = <<>> /\ rc = 0
    /\ popen = NoProcess /\ start = 0 /\ now = 0 /\ tpc = "select"
    /\ exit_status = {} /\ ran = <<>> /\ exits = <<>>
    /\ NoCall /\ NoPeer /\ NoSweep

\* tc.timeout_s of the case being run
CaseTimeout == selected[tc].timeout_s

\* line 81: time.time() - start
Elapsed == now - start

\* line 81: max(0.0, timeout_s - (time.time() - start))
Remaining(timeout_s) ==
    IF timeout_s - Elapsed > 0 THEN timeout_s - Elapsed ELSE 0

\* the loop given up at the first failed case
MoreCasesUnlessFailed == tc < Len(selected) /\ failed = <<>>

\* line 328: the for loop has another case
MoreCases == tc < Len(selected)

\* the failures ignored
MainStatusZero(f) == 0

\* lines 342-349: 1 if any case failed
MainStatus(f) == IF f # <<>> THEN 1 ELSE 0

\* lines 320-326
SelectCases ==
    /\ tpc = "select"
    /\ IF selected = <<>>
       THEN exit_status' = {0} /\ tpc' = "exit" /\ UNCHANGED failed
       ELSE failed' = <<>> /\ tpc' = "loop" /\ UNCHANGED exit_status
    /\ UNCHANGED <<selected, tc, rc, popen, start, now, ran, exits>>
    /\ UNCHANGED <<callVars, peerVars, sweepVars>>

\* lines 328-334: the next case, up to the call of _run
ForCase ==
    /\ tpc = "loop"
    /\ IF MoreCases
       THEN tc' = tc + 1 /\ tpc' = "popen"
       ELSE tpc' = "summary" /\ UNCHANGED tc
    /\ UNCHANGED <<selected, failed, rc, popen, start, now, exit_status, ran,
                   exits>>
    /\ UNCHANGED <<callVars, peerVars, sweepVars>>

\* lines 66-77: the child is started, its stdout a pipe
Popen ==
    /\ tpc = "popen"
    /\ popen' = [state |-> "running", stdout |-> "open", lines |-> 0,
                 code |-> 0]
    /\ start' = now
    /\ ran' = Append(ran, tc)
    /\ tpc' = "read"
    /\ UNCHANGED <<selected, tc, failed, rc, now, exit_status, exits>>
    /\ UNCHANGED <<callVars, peerVars, sweepVars>>

\* lines 79-80: a line is in the pipe; it is echoed
ReadLine ==
    /\ tpc = "read"
    /\ popen.lines > 0
    /\ popen' = [popen EXCEPT !.lines = @ - 1]
    /\ UNCHANGED <<selected, tc, failed, rc, start, now, tpc, exit_status,
                   ran, exits>>
    /\ UNCHANGED <<callVars, peerVars, sweepVars>>

\* line 79: the pipe is empty and closed, the for loop ends
EndOfOutput ==
    /\ tpc = "read"
    /\ popen.lines = 0 /\ popen.stdout = "closed"
    /\ tpc' = "wait"
    /\ UNCHANGED <<selected, tc, failed, rc, popen, start, now, exit_status,
                   ran, exits>>
    /\ UNCHANGED <<callVars, peerVars, sweepVars>>

\* line 81: p.wait returns the exit code of a child that has exited, or
\* raises TimeoutExpired once the remaining time is used up
Wait ==
    /\ tpc = "wait"
    /\ \/ /\ popen.state = "exited"
          /\ rc' = popen.code
          /\ tpc' = "record"
       \/ /\ popen.state = "running"
          /\ Remaining(CaseTimeout) = 0
          /\ tpc' = "except"
          /\ UNCHANGED rc
    /\ UNCHANGED <<selected, tc, failed, popen, start, now, exit_status, ran,
                   exits>>
    /\ UNCHANGED <<callVars, peerVars, sweepVars>>

\* lines 82-87: p.kill(), return 124
KillChild ==
    /\ tpc = "except"
    /\ popen' = IF popen.state = "running"
                THEN [popen EXCEPT !.state = "killed", !.stdout = "closed"]
                ELSE popen
    /\ rc' = TimeoutCode
    /\ tpc' = "record"
    /\ UNCHANGED <<selected, tc, failed, start, now, exit_status, ran, exits>>
    /\ UNCHANGED <<callVars, peerVars, sweepVars>>

\* lines 335-339
Record ==
    /\ tpc = "record"
    /\ exits' = Append(exits, rc)
    /\ failed' = IF rc # 0 THEN Append(failed, <<tc, rc>>) ELSE failed
    /\ tpc' = "loop"
    /\ UNCHANGED <<selected, tc, rc, popen, start, now, exit_status, ran>>
    /\ UNCHANGED <<callVars, peerVars, sweepVars>>

\* lines 341-349
Summary ==
    /\ tpc = "summary"
    /\ exit_status' = {MainStatus(failed)}
    /\ tpc' = "exit"
    /\ UNCHANGED <<selected, tc, failed, rc, popen, start, now, ran, exits>>
    /\ UNCHANGED <<callVars, peerVars, sweepVars>>

\* _run is between Popen and its return
InRun == tpc \in {"read", "wait", "except"}

\* the child writes a line to its stdout
ChildWrites ==
    /\ InRun /\ popen.state = "running" /\ popen.stdout = "open"
    /\ popen.lines < MaxLines
    /\ popen' = [popen EXCEPT !.lines = @ + 1]
    /\ UNCHANGED <<selected, tc, failed, rc, start, now, tpc, exit_status,
                   ran, exits>>
    /\ UNCHANGED <<callVars, peerVars, sweepVars>>

\* the child closes its stdout and goes on running
ChildClosesStdout ==
    /\ InRun /\ popen.state = "running" /\ popen.stdout = "open"
    /\ popen' = [popen EXCEPT !.stdout = "closed"]
    /\ UNCHANGED <<selected, tc, failed, rc, start, now, tpc, exit_status,
                   ran, exits>>
    /\ UNCHANGED <<callVars, peerVars, sweepVars>>

\* the child exits; its stdout is closed with it
ChildExits ==
    /\ InRun /\ popen.state = "running"
    /\ \E c \in ExitCodes :
          popen' = [popen EXCEPT !.state = "exited", !.stdout = "closed",
                                 !.code = c]
    /\ UNCHANGED <<selected, tc, failed, rc, start, now, tpc, exit_status,
                   ran, exits>>
    /\ UNCHANGED <<callVars, peerVars, sweepVars>>

\* a second passes; the clock is followed until the timeout of the running
\* case has passed
Tick ==
    /\ tpc \in {"read", "wait"}
    /\ Elapsed < CaseTimeout
    /\ now' = now + 1
    /\ UNCHANGED <<selected, tc, failed, rc, popen, start, tpc, exit_status,
                   ran, exits>>
    /\ UNCHANGED <<callVars, peerVars, sweepVars>>

\* the steps of the runner itself
RunnerStep ==
    \/ SelectCases
    \/ ForCase
    \/ Popen
    \/ ReadLine
    \/ EndOfOutput
    \/ Wait
    \/ KillChild
    \/ Record
    \/ Summary

SuiteNext ==
    \/ SelectCases
    \/ ForCase
    \/ Popen
    \/ ReadLine
    \/ EndOfOutput
    \/ Wait
    \/ KillChild
    \/ Record
    \/ Summary
    \/ ChildWrites
    \/ ChildClosesStdout
    \/ ChildExits
    \/ Tick

\* the runner takes a step whenever it can and time passes; nothing is
\* assumed of the child
SuiteSpec ==
    InitSuite /\ [][SuiteNext]_vars /\ WF_vars(RunnerStep) /\ WF_vars(Tick)

\* the child of case k is running timeout_s seconds after its start
Overdue(k) ==
    /\ tc = k /\ tpc \in {"read", "wait"} /\ popen.state = "running"
    /\ Elapsed >= CaseTimeout

\* _run has returned for case k: with 124 after killing the child, or with
\* the exit code of a child that exited by itself in the meantime
TimedOut(k) ==
    /\ tc = k /\ tpc = "record"
    /\ \/ rc = TimeoutCode /\ popen.state \in {"killed", "exited"}
       \/ rc = popen.code /\ popen.state = "exited"

\* C28: when a child is still running timeout_s seconds after its start,
\* _run returns: it kills the child and returns 124 (unless the child has
\* exited by itself before the kill); it does not wait for the child
\* indefinitely.
C28_TimeoutEnforced ==
    \A k \in 1..MaxCases : Overdue(k) ~> TimedOut(k)

\* C29: _run is called for the selected cases in order, each once; main
\* returns only after all of them have run, whatever their exit codes;
\* it returns 1 exactly when some case had a non-zero exit code, and 0
\* without running anything when no case is selected; after each case,
\* failed or not, the loop goes on to the next.
C29_RunsEveryCaseInOrder ==
    /\ [](/\ Len(ran) <= Len(selected)
          /\ \A k \in 1..Len(ran) : ran[k] = k
          /\ Len(exits) <= Len(ran) /\ Len(ran) <= Len(exits) + 1)
    /\ [](exit_status # {} =>
             /\ Len(ran) = Len(selected) /\ Len(exits) = Len(selected)
             /\ exit_status \in {{0}, {1}}
             /\ exit_status = {1} <=> (\E k \in 1..Len(exits) : exits[k] # 0))
    /\ []((selected = <<>> /\ tpc # "select") =>
             (exit_status = {0} /\ ran = <<>>))
    /\ [][tpc = "record" => tpc' = "loop"]_vars
    /\ [][(tpc = "loop" /\ Len(ran) < Len(selected)) =>
             (tpc' = "popen" /\ tc' = Len(ran) + 1)]_vars

\* C29 witness: main has returned 1 after a first case that timed out and a
\* second that passed.
C29_Witness ==
    /\ exit_status = {1} /\ Len(selected) = 2
    /\ exits = <<TimeoutCode, 0>> /\ ran = <<1, 2>>

---------------------------------------------------------------------------
(* The ROM sweep, src/scripts/rom_sweep.py: main from line 117 on and      *)
(* _run_aioserver.  The file system and the AIOServer process are the      *)
(* environment: unlink may fail with OSError, and a run of AIOServer may    *)
(* leave crash_log.txt alone, write it empty, or write a log into it.      *)

\* `roms` has 0..MaxRoms ROMs
MaxRoms == 3

\* a crash_log.txt left in the workspace before the sweep: empty or not
StaleFiles == {[exists |-> TRUE, size |-> n, by |-> 0] : n \in {0, 1}}

\* what a run of AIOServer does to crash_log.txt
LogWrites == {"nothing", "empty", "log"}

\* main after line 117: roms = sorted(...); ROM k is the k-th of the list
InitSweep ==
    /\ \E n \in 0..MaxRoms : roms = [k \in 1..n |-> k]
    /\ crash_log \in {NoFile} \cup StaleFiles
    /\ rom = 0 /\ results = <<>> /\ exit_code = 0 /\ spc = "roms"
    /\ sweep_status = {} /\ wrote = {}
    /\ NoCall /\ NoPeer /\ NoSuite

\* lines 39-43: crash_log.unlink() removes the file, or raises OSError,
\* which is passed over and leaves the file
UnlinkOutcomes == {NoFile, crash_log}

\* line 64: crash_log.exists() and crash_log.stat().st_size > 0
LogPresent == crash_log.exists /\ crash_log.size > 0

\* lines 118-124
ListRoms ==
    /\ spc = "roms"
    /\ IF roms = <<>>
       THEN sweep_status' = {0} /\ spc' = "exit" /\ UNCHANGED results
       ELSE results' = <<>> /\ spc' = "loop" /\ UNCHANGED sweep_status
    /\ UNCHANGED <<roms, rom, crash_log, exit_code, wrote>>
    /\ UNCHANGED <<callVars, peerVars, suiteVars>>

\* lines 125-126: the next ROM, up to the call of _run_aioserver
ForRom ==
    /\ spc = "loop"
    /\ IF rom < Len(roms)
       THEN rom' = rom + 1 /\ spc' = "unlink"
       ELSE spc' = "report" /\ UNCHANGED rom
    /\ UNCHANGED <<roms, results, crash_log, exit_code, sweep_status, wrote>>
    /\ UNCHANGED <<callVars, peerVars, suiteVars>>

\* lines 36-43
RemoveOldLog ==
    /\ spc = "unlink"
    /\ IF crash_log.exists
       THEN crash_log' \in UnlinkOutcomes
       ELSE UNCHANGED crash_log
    /\ spc' = "run"
    /\ UNCHANGED <<roms, rom, results, exit_code, sweep_status, wrote>>
    /\ UNCHANGED <<callVars, peerVars, suiteVars>>

\* lines 45-61: AIOServer runs on the ROM and exits
RunAIOServer ==
    /\ spc = "run"
    /\ \E c \in ExitCodes, w \in LogWrites :
          /\ exit_code' = c
          /\ crash_log' =
                IF w = "nothing" THEN crash_log
                ELSE [exists |-> TRUE, size |-> IF w = "log" THEN 1 ELSE 0,
                      by |-> rom]
          /\ wrote' = IF w = "log" THEN wrote \cup {rom} ELSE wrote
    /\ spc' = "collect"
    /\ UNCHANGED <<roms, rom, results, sweep_status>>
    /\ UNCHANGED <<callVars, peerVars, suiteVars>>

\* lines 63-75 and 127: crash_copy is set when a non-empty crash_log.txt is
\* there (whether or not the copy succeeds); the RomResult is appended
CollectResult ==
    /\ spc = "collect"
    /\ results' = Append(results,
                         [rom |-> rom, exit_code |-> exit_code,
                          crash_log |-> IF LogPresent THEN {rom} ELSE {}])
    /\ spc' = "loop"
    /\ UNCHANGED <<roms, rom, crash_log, exit_code, sweep_status, wrote>>
    /\ UNCHANGED <<callVars, peerVars, suiteVars>>

\* lines 129-144
Report ==
    /\ spc = "report"
    /\ sweep_status' =
          {IF \E k \in 1..Len(results) : results[k].exit_code # 0
           THEN 1 ELSE 0}
    /\ spc' = "exit"
    /\ UNCHANGED <<roms, rom, results, crash_log, exit_code, wrote>>
    /\ UNCHANGED <<callVars, peerVars, suiteVars>>

SweepNext ==
    \/ ListRoms
    \/ ForRom
    \/ RemoveOldLog
    \/ RunAIOServer
    \/ CollectResult
    \/ Report

SweepSpec == InitSweep /\ [][SweepNext]_vars

\* C30: a RomResult has a crash_log only if the AIOServer run of its own
\* ROM wrote a non-empty crash_log.txt.
C30_CrashLogIsOwn ==
    \A k \in 1..Len(results) :
        results[k].crash_log # {} => results[k].rom \in wrote

=============================================================================
